---- MODULE Spec2Model ----
(***************************************************************************)
(* Model of the Toma Ai front end: the two conversation lanes of App.tsx   *)
(* (chat and code), their sessions, the streaming exchange of              *)
(* handleSendMessage, and the one-shot service calls generateImage and     *)
(* generateVeoVideo of services/gemini.ts.                                 *)
(*                                                                         *)
(* Strings are sequences of tokens; a token is a run of characters that    *)
(* contains no comma and no whitespace unless it is exactly "," or " ".    *)
(* Message ids are the numbers whose decimal form the code stores          *)
(* (Date.now().toString()): two decimal forms are equal exactly when the   *)
(* numbers are.                                                            *)
(***************************************************************************)
EXTENDS Integers, Sequences, FiniteSets, TLC

VARIABLES activeView, chatMessages, codeMessages, input, attachments,
          isLoading, modelType, chatSessionRef, codeSessionRef,
          sessions, exchanges, now, env, img, veo, call, design, video, reads

vars == <<activeView, chatMessages, codeMessages, input, attachments,
          isLoading, modelType, chatSessionRef, codeSessionRef,
          sessions, exchanges, now, env, img, veo, call, design, video, reads>>

appVars == <<activeView, chatMessages, codeMessages, input, attachments,
             isLoading, modelType, chatSessionRef, codeSessionRef,
             sessions, exchanges, now>>

\* ------------------------------------------------------------------ bounds
MaxSends == 2
MaxFrags == 2
MaxTime == 1
MaxSessions == 5
MaxAtt == 3
MaxSelects == 2

\* --------------------------------------------------------------- constants
FLASH == "gemini-2.5-flash"
PRO == "gemini-3-pro-preview"
FLASH_LITE == "gemini-flash-lite-latest"

\* AVAILABLE_MODELS: the ids the model selector offers
AVAILABLE_MODELS == <<FLASH, PRO, FLASH_LITE>>

\* ViewMode; 'image' stands for every view other than chat and code, which
\* App treats alike (neither branch of the activeView tests)
ViewMode == {"chat", "code", "image"}

USER == "user"
MODEL == "model"

defaultInstruction == <<"You are Toma Ai, a helpful and intelligent AI assistant">>
codingInstruction == <<"You are Toma Ai, an expert Senior Software Engineer", " and Coding Assistant">>
clearCodeInstruction == <<"You are Toma Ai, an expert Senior Software Engineer", "...">>

\* the fixed text the catch block stores in a failed placeholder
FailureString == <<"Sorry,", " ", "processing", " ", "error">>

NoInstruction == <<"<undefined>">>
Undefined == <<"<undefined>">>
NoSession == 0

\* no error caught yet; an error of the transport (fields as is429 reads them)
NoError == [status |-> "", code |-> 0, message |-> <<"none">>]
TransportError == [status |-> "", code |-> 0, message |-> <<"f", "a", "i", "l">>]

\* ------------------------------------------------------------ environment
\* process.env.API_KEY: unset, or a key
EnvKeys == {"UNSET", "key"}

\* text of the chunks a stream may deliver (chunk.text may be empty)
Fragments == {<<>>, <<"Hi">>, <<" ", "there">>}

\* what the user may type into the textarea
TypedInputs == {<<" ">>, <<"hello">>, <<" ", "hello", " ">>}

\* files the user may pick: name, MIME type (top/sub), content; for an archive
\* the members JSZip lists, and whether loadAsync rejects
Files ==
  { [name |-> "a.png", ext |-> "png", top |-> "image", sub |-> "png", content |-> <<"QUJD">>,
     entries |-> <<>>, corrupt |-> FALSE],
    [name |-> "b.pdf", ext |-> "pdf", top |-> "application", sub |-> "pdf", content |-> <<"REVG">>,
     entries |-> <<>>, corrupt |-> FALSE],
    [name |-> "c.py", ext |-> "py", top |-> "text", sub |-> "x-python", content |-> <<"print">>,
     entries |-> <<>>, corrupt |-> FALSE] }

\* files of the remaining kinds: a video, an archive, a file of unknown type
MoreFiles ==
  { [name |-> "d.mp4", ext |-> "mp4", top |-> "video", sub |-> "mp4", content |-> <<"R0hJ">>,
     entries |-> <<>>, corrupt |-> FALSE],
    [name |-> "e.zip", ext |-> "zip", top |-> "application", sub |-> "zip", content |-> <<"PK">>,
     entries |-> << [path |-> "src/", ext |-> "", dir |-> TRUE, content |-> <<>>],
                    [path |-> "src/m.ts", ext |-> "ts", dir |-> FALSE, content |-> <<"let">>],
                    [path |-> "src/m.o", ext |-> "o", dir |-> FALSE, content |-> <<"ELF">>] >>,
     corrupt |-> FALSE],
    [name |-> "f.bin", ext |-> "bin", top |-> "application", sub |-> "octet-stream", content |-> <<"raw">>,
     entries |-> <<>>, corrupt |-> FALSE] }

\* an archive with a directory, n text members and a member that is not text
ZipArchive(name, n) ==
  [name |-> name, ext |-> "zip", top |-> "application", sub |-> "zip", content |-> <<"PK">>,
   entries |-> << [path |-> "src/", ext |-> "", dir |-> TRUE, content |-> <<>>] >>
               \o [i \in 1..n |-> [path |-> ToString(i), ext |-> "ts", dir |-> FALSE,
                                    content |-> <<"let">>]]
               \o << [path |-> "logo.png", ext |-> "png", dir |-> FALSE, content |-> <<"PNG">>] >>,
   corrupt |-> FALSE]

\* archives below, at and above the member limit of the archive loop
ZipFiles ==
  { ZipArchive("z0.zip", 0), ZipArchive("z2.zip", 2), ZipArchive("z50.zip", 50),
    ZipArchive("z51.zip", 51), ZipArchive("z52.zip", 52) }

\* an archive JSZip cannot load
CorruptFiles ==
  { [name |-> "g.zip", ext |-> "zip", top |-> "", sub |-> "", content |-> <<"??">>,
     entries |-> <<>>, corrupt |-> TRUE] }

\* ---------------------------------------------------------------- helpers
RECURSIVE TrimStart(_)
TrimStart(s) ==
  IF s # <<>> /\ Head(s) = " " THEN TrimStart(Tail(s)) ELSE s

RECURSIVE TrimEnd(_)
TrimEnd(s) ==
  IF s # <<>> /\ s[Len(s)] = " " THEN TrimEnd(SubSeq(s, 1, Len(s) - 1)) ELSE s

\* String.prototype.trim
Trim(s) == TrimEnd(TrimStart(s))

RECURSIVE SplitComma(_, _, _)
SplitComma(s, cur, acc) ==
  IF s = <<>> THEN Append(acc, cur)
  ELSE IF Head(s) = "," THEN SplitComma(Tail(s), <<>>, Append(acc, cur))
  ELSE SplitComma(Tail(s), Append(cur, Head(s)), acc)

\* att.data.split(',')[1]
SplitSecond(data) ==
  LET pieces == SplitComma(data, <<>>, <<>>)
  IN IF Len(pieces) >= 2 THEN pieces[2] ELSE Undefined

\* FileReader.readAsDataURL result
DataURL(file) ==
  <<"data:", file.top, "/", file.sub, ";base64", ",">> \o file.content

\* if (fileCount > 50) break
ZipLimit == 50

\* extensions the archive loop takes for text
ZipTextExts == {"js", "ts", "tsx", "jsx", "json", "html", "css", "py", "md", "txt", "xml", "c", "cpp", "java", "config", "yml"}

\* one pass of the loop body over zipContent.files; past the limit the loop
\* has left and nothing changes any more
ZipStep(state, entry) ==
  IF state.fileCount > ZipLimit THEN state
  ELSE IF ~entry.dir /\ entry.ext \in ZipTextExts
  THEN [fileCount |-> state.fileCount + 1,
        extractedText |-> state.extractedText \o <<"\n--- START FILE: ", entry.path, " ---\n">>
                                              \o entry.content \o <<"\n--- END FILE ---\n">>]
  ELSE state

\* the passes for entries lo..hi in order, the first half before the second
RECURSIVE ZipLoop(_, _, _, _)
ZipLoop(entries, lo, hi, state) ==
  IF lo > hi THEN state
  ELSE IF lo = hi THEN ZipStep(state, entries[lo])
  ELSE LET mid == (lo + hi) \div 2
       IN CHOOSE last \in {ZipLoop(entries, mid + 1, hi, first) :
                             first \in {ZipLoop(entries, lo, mid, state)}} : TRUE

\* the loop over zipContent.files
ZipText(entries, fileCount, extractedText) ==
  ZipLoop(entries, 1, Len(entries),
          [fileCount |-> fileCount, extractedText |-> extractedText]).extractedText

\* the attachment handleFileSelect builds for a file once it is read
FileAttachment(file) ==
  LET isImage == file.top = "image"
      isVideo == file.top = "video"
      isPDF == file.top = "application" /\ file.sub = "pdf"
      isZip == (file.top = "application" /\ file.sub = "zip") \/ file.ext = "zip"
      isText == file.top = "text" \/ file.ext \in {"js", "ts", "tsx", "jsx", "json", "html", "css", "py", "md", "txt", "xml", "c", "cpp", "java"}
  IN IF isImage \/ isVideo \/ isPDF
     THEN [name |-> file.name, data |-> DataURL(file),
           mimeType |-> <<file.top, "/", file.sub>>,
           type |-> IF isImage THEN "image" ELSE IF isVideo THEN "video" ELSE "pdf"]
     ELSE IF isZip
     THEN [name |-> file.name,
           data |-> ZipText(file.entries, 0, <<"[ARCHIVE_CONTENT: ", file.name, "]", "\n">>),
           mimeType |-> <<"application", "/", "zip">>, type |-> "zip"]
     ELSE IF isText
     THEN [name |-> file.name,
           data |-> <<"[FILE_CONTENT: ", file.name, "]", "\n">> \o file.content,
           mimeType |-> <<file.top, "/", file.sub>>, type |-> "code"]
     ELSE [name |-> file.name,
           data |-> <<"[FILE_CONTENT: ", file.name, "]", "\n">> \o file.content,
           mimeType |-> <<"text", "/", "plain">>, type |-> "text"]

\* getClient: a missing key becomes the empty key, nothing is thrown
getClient == [apiKey |-> IF env = "UNSET" THEN "" ELSE env]

createChatSessionDefaultOnly(model, systemInstruction) ==
  [model |-> model,
   config |-> [systemInstruction |-> defaultInstruction, thinking |-> model = PRO,
               tools |-> model = FLASH],
   history |-> <<>>, apiKey |-> getClient.apiKey]

\* createChatSession: the session object ai.chats.create returns
createChatSession(model, systemInstruction) ==
  LET ai == getClient
      base == [systemInstruction |-> IF systemInstruction # NoInstruction /\ systemInstruction # <<>>
                                     THEN systemInstruction ELSE defaultInstruction,
               thinking |-> FALSE, tools |-> FALSE]
      c1 == IF model = PRO THEN [base EXCEPT !.thinking = TRUE] ELSE base
      config == IF model = FLASH THEN [c1 EXCEPT !.tools = TRUE] ELSE c1
  IN [model |-> model, config |-> config, history |-> <<>>, apiKey |-> ai.apiKey]

InlineAttachmentsAll(atts) ==
  [i \in 1..Len(atts) |-> [data |-> atts[i].data, mimeType |-> atts[i].mimeType]]

\* the inline list and the prompt text handleSendMessage builds
RECURSIVE InlineAttachments(_)
InlineAttachments(atts) ==
  IF atts = <<>> THEN <<>>
  ELSE LET att == Head(atts)
       IN IF att.type \in {"image", "video", "pdf"}
          THEN <<[data |-> att.data, mimeType |-> att.mimeType]>> \o InlineAttachments(Tail(atts))
          ELSE InlineAttachments(Tail(atts))

UserMessageTextNone(text, atts) == text

\* userMessageText after the forEach over the attachments
RECURSIVE UserMessageText(_, _)
UserMessageText(text, atts) ==
  IF atts = <<>> THEN text
  ELSE LET att == Head(atts)
       IN IF att.type \in {"image", "video", "pdf"}
          THEN UserMessageText(text, Tail(atts))
          ELSE UserMessageText(text \o <<"\n\n">> \o att.data, Tail(atts))

\* sendMessageStream: the payload handed to chat.sendMessageStream
MessagePayload(message, inline) ==
  IF Len(inline) > 0
  THEN [kind |-> "parts",
        parts |-> [i \in 1..Len(inline) |->
                     [part |-> "inlineData", data |-> SplitSecond(inline[i].data),
                      mimeType |-> inline[i].mimeType]]
                  \o <<[part |-> "text", data |-> message, mimeType |-> <<>>]>>]
  ELSE [kind |-> "string", parts |-> <<>>, text |-> message]

AccumulateOverwrite(accumulatedText, text) == text

AccumulatePrepend(accumulatedText, text) == text \o accumulatedText

\* accumulatedText += text
Accumulate(accumulatedText, text) == accumulatedText \o text

\* prev.map(msg => msg.id === aiPlaceholderId ? {...msg, content} : msg)
MapContent(msgs, id, content) ==
  [i \in 1..Len(msgs) |->
     IF msgs[i].id = id THEN [msgs[i] EXCEPT !.content = content] ELSE msgs[i]]

MapFailureKeepPartial(msgs, id) ==
  [i \in 1..Len(msgs) |->
     IF msgs[i].id = id THEN [msgs[i] EXCEPT !.isError = TRUE] ELSE msgs[i]]

MapFailureUpsert(msgs, id) ==
  IF \E i \in 1..Len(msgs) : msgs[i].id = id
  THEN [i \in 1..Len(msgs) |->
          IF msgs[i].id = id
          THEN [msgs[i] EXCEPT !.content = FailureString, !.isError = TRUE]
          ELSE msgs[i]]
  ELSE Append(msgs, [id |-> id, role |-> MODEL, content |-> FailureString,
                     isError |-> TRUE, attachments |-> <<>>, ex |-> 0])

\* prev.map(msg => msg.id === aiPlaceholderId ? {...msg, content, isError: true} : msg)
MapFailure(msgs, id) ==
  [i \in 1..Len(msgs) |->
     IF msgs[i].id = id
     THEN [msgs[i] EXCEPT !.content = FailureString, !.isError = TRUE]
     ELSE msgs[i]]

\* A session object no ref and no running exchange holds is garbage: its slot
\* keeps its identity (the index) and loses its fields.
Collected == [model |-> "collected"]

Reachable(chatRef, codeRef, exs) ==
  {chatRef, codeRef} \cup {exs[k].session : k \in {j \in 1..Len(exs) : exs[j].phase \in {"establishing", "streaming"}}}

Collect(sess, chatRef, codeRef, exs) ==
  [i \in 1..Len(sess) |-> IF i \in Reachable(chatRef, codeRef, exs) THEN sess[i] ELSE Collected]

\* ------------------------------------------------------------------- Init
\* The state after App has mounted: the mount effect creates both sessions,
\* then the [modelType, activeView] effect re-creates the chat session.
\* no file dialog has been used: no FileReader is reading, no handleFileSelect
\* is waiting for an archive
ReadsIdle == [selections |-> 0, started |-> {}, awaiting |-> {}]

InitApp ==
  /\ activeView = "chat"
  /\ chatMessages = <<>>
  /\ codeMessages = <<>>
  /\ input = <<>>
  /\ attachments = <<>>
  /\ isLoading = FALSE
  /\ modelType = FLASH
  /\ sessions = <<Collected,
                  createChatSession(PRO, codingInstruction),
                  createChatSession(FLASH, NoInstruction)>>
  /\ chatSessionRef = 3
  /\ codeSessionRef = 2
  /\ exchanges = <<>>
  /\ now = 0
  /\ reads = ReadsIdle

ImgIdle == [pc |-> "idle"]
VeoIdle == [pc |-> "idle"]

\* no service function is being called directly, no design is being generated,
\* the video view has just mounted
CallIdle == [pc |-> "idle"]
DesignIdle == [pc |-> "idle"]

\* the error texts of the video view, and no error
NoMessage == <<"null">>
BillingMessage == <<"Veo", " ", "needs", " ", "a", " ", "paid", " ", "key">>
ConnectionMessage == <<"Veo", " ", "connection", " ", "error">>
EmptyResultMessage == <<"video", " ", "generation", " ", "failed">>

\* VideoGenerator after mount; aistudio: whether window.aistudio exists
VideoMounted(aistudio) ==
  [prompt |-> <<>>, isLoading |-> FALSE, videoUrl |-> <<"null">>, error |-> NoMessage,
   aspectRatio |-> "16:9", needsKey |-> FALSE, aistudio |-> aistudio,
   caught |-> NoError, requests |-> 0]

VideoIdle == VideoMounted(FALSE)

Init ==
  /\ env \in EnvKeys
  /\ InitApp
  /\ img = ImgIdle
  /\ veo = VeoIdle
  /\ call = CallIdle
  /\ design = DesignIdle
  /\ video = VideoIdle

\* ---------------------------------------------------------------- actions
\* textarea onChange
SetInput(text) ==
  /\ activeView \in {"chat", "code"}
  /\ input' = text
  /\ UNCHANGED <<activeView, chatMessages, codeMessages, attachments, isLoading,
                 modelType, chatSessionRef, codeSessionRef, sessions, exchanges,
                 now, env, img, veo, call, design, video, reads>>

\* handleFileSelect: a picked file has been read and is appended; an archive
\* that fails to load is reported and adds nothing
AddAttachment(file) ==
  /\ activeView \in {"chat", "code"}
  /\ Len(attachments) < MaxAtt
  /\ attachments' = IF file.corrupt THEN attachments ELSE Append(attachments, FileAttachment(file))
  /\ UNCHANGED <<activeView, chatMessages, codeMessages, input, isLoading,
                 modelType, chatSessionRef, codeSessionRef, sessions, exchanges,
                 now, env, img, veo, call, design, video, reads>>

removeAttachment(index) ==
  /\ activeView \in {"chat", "code"}
  /\ index \in 1..Len(attachments)
  /\ attachments' = SubSeq(attachments, 1, index - 1) \o SubSeq(attachments, index + 1, Len(attachments))
  /\ UNCHANGED <<activeView, chatMessages, codeMessages, input, isLoading,
                 modelType, chatSessionRef, codeSessionRef, sessions, exchanges,
                 now, env, img, veo, call, design, video, reads>>

\* files the dialog offers, and what the user picks together, in the order of
\* e.target.files
PickFiles == {file \in Files \cup MoreFiles : file.ext \in {"png", "py", "zip"}}
Selections ==
  {<<file>> : file \in PickFiles} \cup
  ({<<f, g>> : f \in PickFiles, g \in PickFiles} \ {<<f, f>> : f \in PickFiles})

\* the file takes the isZip branch of the loop, which awaits
ZipBranch(file) == FileAttachment(file).type = "zip"

\* the position at or after i of the first file the loop awaits, or past the end
NextZipAt(files, i) ==
  LET zs == {j \in i..Len(files) : ZipBranch(files[j])}
  IN IF zs = {} THEN Len(files) + 1 ELSE CHOOSE j \in zs : \A k \in zs : j <= k

\* the readers the loop starts for files[i..j]: reader.readAsDataURL(file) or
\* reader.readAsText(file); selection, view and sends record when the files were
\* picked
Started(files, i, j, selection, view, sends) ==
  {[file |-> files[k], index |-> k, selection |-> selection, view |-> view, sends |-> sends] :
     k \in i..j}

\* the handler suspended at await zip.loadAsync(files[z]), if z is a position
Awaiting(files, z, selection, view, sends) ==
  IF z <= Len(files)
  THEN {[files |-> files, at |-> z, selection |-> selection, view |-> view, sends |-> sends]}
  ELSE {}

\* handleFileSelect up to its first await: a reader is started for every file
\* before the first archive
handleFileSelect(files) ==
  /\ activeView \in {"chat", "code"}
  /\ reads.selections < MaxSelects
  /\ LET selection == reads.selections + 1
         z == NextZipAt(files, 1)
     IN reads' = [selections |-> selection,
                  started |-> reads.started \cup
                              Started(files, 1, z - 1, selection, activeView, Len(exchanges)),
                  awaiting |-> reads.awaiting \cup
                               Awaiting(files, z, selection, activeView, Len(exchanges))]
  /\ UNCHANGED <<activeView, chatMessages, codeMessages, input, attachments, isLoading,
                 modelType, chatSessionRef, codeSessionRef, sessions, exchanges,
                 now, env, img, veo, call, design, video>>

\* reader.onload of one started reader, whichever finishes next
onload(r) ==
  /\ r \in reads.started
  /\ Len(attachments) < MaxAtt
  /\ attachments' = Append(attachments, FileAttachment(r.file))
  /\ reads' = [reads EXCEPT !.started = @ \ {r}]
  /\ UNCHANGED <<activeView, chatMessages, codeMessages, input, isLoading,
                 modelType, chatSessionRef, codeSessionRef, sessions, exchanges,
                 now, env, img, veo, call, design, video>>

\* zip.loadAsync settles: the archive text is appended (or the failure is
\* reported) and the loop goes on to the next await or to its end
zipLoaded(h) ==
  /\ h \in reads.awaiting
  /\ Len(attachments) < MaxAtt
  /\ LET file == h.files[h.at]
         z == NextZipAt(h.files, h.at + 1)
     IN /\ attachments' = IF file.corrupt THEN attachments
                           ELSE Append(attachments, FileAttachment(file))
        /\ reads' = [reads EXCEPT
                       !.started = @ \cup Started(h.files, h.at + 1, z - 1,
                                                  h.selection, h.view, h.sends),
                       !.awaiting = (@ \ {h}) \cup Awaiting(h.files, z, h.selection,
                                                             h.view, h.sends)]
  /\ UNCHANGED <<activeView, chatMessages, codeMessages, input, isLoading,
                 modelType, chatSessionRef, codeSessionRef, sessions, exchanges,
                 now, env, img, veo, call, design, video>>

\* Date.now() advances
Tick ==
  /\ now < MaxTime
  /\ now' = now + 1
  /\ UNCHANGED <<activeView, chatMessages, codeMessages, input, attachments, isLoading,
                 modelType, chatSessionRef, codeSessionRef, sessions, exchanges,
                 env, img, veo, call, design, video, reads>>

SendGuardNoLoading ==
  /\ ~(Trim(input) = <<>> /\ Len(attachments) = 0)
  /\ (IF activeView = "code" THEN codeSessionRef ELSE chatSessionRef) # NoSession

\* the list a closure with this activeView reads and writes
Lane(view) == IF view = "code" THEN codeMessages ELSE chatMessages

SetCurrentMessagesActive(view, msgs) ==
  IF activeView = "code"
  THEN /\ codeMessages' = msgs
       /\ UNCHANGED chatMessages
  ELSE /\ chatMessages' = msgs
       /\ UNCHANGED codeMessages

\* setCurrentMessages of a closure: the lane is chosen by the activeView the
\* handler captured when it was created
SetCurrentMessages(view, msgs) ==
  IF view = "code"
  THEN /\ codeMessages' = msgs
       /\ UNCHANGED chatMessages
  ELSE /\ chatMessages' = msgs
       /\ UNCHANGED codeMessages

\* the two early returns of handleSendMessage
SendGuard ==
  /\ ~((Trim(input) = <<>> /\ Len(attachments) = 0) \/ isLoading)
  /\ (IF activeView = "code" THEN codeSessionRef ELSE chatSessionRef) # NoSession

\* handleSendMessage up to its first await: d is the time that passes between
\* the Date.now() of the user id and the Date.now() of the placeholder id
handleSendMessage(d) ==
  /\ activeView \in {"chat", "code"}
  /\ SendGuard
  /\ Len(exchanges) < MaxSends
  /\ now + d <= MaxTime
  /\ LET currentSession == IF activeView = "code" THEN codeSessionRef ELSE chatSessionRef
         userMessageText == UserMessageText(Trim(input), attachments)
         inlineAttachments == InlineAttachments(attachments)
         k == Len(exchanges) + 1
         newUserMessage == [id |-> now, role |-> USER, content |-> Trim(input),
                            isError |-> FALSE, attachments |-> attachments, ex |-> k]
         aiPlaceholderId == now + d + 1
         aiPlaceholder == [id |-> aiPlaceholderId, role |-> MODEL, content |-> <<>>,
                           isError |-> FALSE, attachments |-> <<>>, ex |-> k]
     IN /\ input' = <<>>
        /\ attachments' = <<>>
        /\ SetCurrentMessages(activeView, Lane(activeView) \o <<newUserMessage, aiPlaceholder>>)
        /\ isLoading' = TRUE
        /\ exchanges' = Append(exchanges,
             [view |-> activeView, session |-> currentSession,
              displayAttachments |-> attachments,
              aiPlaceholderId |-> aiPlaceholderId,
              payload |-> MessagePayload(userMessageText, inlineAttachments),
              phase |-> "establishing", accumulatedText |-> <<>>, delivered |-> <<>>,
              requests |-> 1, error |-> NoError])
        /\ now' = now + d
  /\ UNCHANGED <<activeView, modelType, chatSessionRef, codeSessionRef, sessions,
                 env, img, veo, call, design, video, reads>>

\* await sendMessageStream(...) resolves with a stream
StreamEstablished(k) ==
  /\ k \in 1..Len(exchanges)
  /\ exchanges[k].phase = "establishing"
  /\ exchanges' = [exchanges EXCEPT ![k].phase = "streaming"]
  /\ UNCHANGED <<activeView, chatMessages, codeMessages, input, attachments, isLoading,
                 modelType, chatSessionRef, codeSessionRef, sessions, now, env, img, veo,
                 call, design, video, reads>>

\* one iteration of for await (const chunk of resultStream)
StreamChunk(k, text) ==
  /\ k \in 1..Len(exchanges)
  /\ exchanges[k].phase = "streaming"
  /\ Len(exchanges[k].delivered) < MaxFrags
  /\ LET accumulatedText == IF text # <<>> THEN Accumulate(exchanges[k].accumulatedText, text)
                            ELSE exchanges[k].accumulatedText
         view == exchanges[k].view
     IN /\ exchanges' = [exchanges EXCEPT ![k].accumulatedText = accumulatedText,
                                          ![k].delivered = Append(@, text)]
        /\ IF text # <<>>
           THEN SetCurrentMessages(view, MapContent(Lane(view), exchanges[k].aiPlaceholderId, accumulatedText))
           ELSE UNCHANGED <<chatMessages, codeMessages>>
  /\ UNCHANGED <<activeView, input, attachments, isLoading, modelType, chatSessionRef,
                 codeSessionRef, sessions, now, env, img, veo,
                 call, design, video, reads>>

\* the stream is exhausted: the loop ends, finally runs
StreamEnd(k) ==
  /\ k \in 1..Len(exchanges)
  /\ exchanges[k].phase = "streaming"
  /\ exchanges' = [exchanges EXCEPT ![k].phase = "done"]
  /\ sessions' = Collect([sessions EXCEPT ![exchanges[k].session].history =
                             Append(@, [user |-> k, model |-> exchanges[k].accumulatedText])],
                         chatSessionRef, codeSessionRef, exchanges')
  /\ isLoading' = FALSE
  /\ UNCHANGED <<activeView, chatMessages, codeMessages, input, attachments,
                 modelType, chatSessionRef, codeSessionRef, now, env, img, veo, call, design, video, reads>>

CatchPhaseRetry(error) == IF error.code = 429 THEN "establishing" ELSE "failed"

\* catch (error): whatever the error, the exchange is over
CatchPhase(error) == "failed"

\* sendMessageStream rejects, or the stream throws while consumed: catch, finally
StreamFail(k, error) ==
  /\ k \in 1..Len(exchanges)
  /\ exchanges[k].phase \in {"establishing", "streaming"}
  /\ SetCurrentMessages(exchanges[k].view,
                        MapFailure(Lane(exchanges[k].view), exchanges[k].aiPlaceholderId))
  /\ exchanges' = [exchanges EXCEPT ![k].phase = CatchPhase(error), ![k].error = error]
  /\ sessions' = Collect(sessions, chatSessionRef, codeSessionRef, exchanges')
  /\ isLoading' = FALSE
  /\ UNCHANGED <<activeView, input, attachments, modelType, chatSessionRef,
                 codeSessionRef, now, env, img, veo, call, design, video, reads>>

SessionEffectTransplant(view, model, ref, sess) ==
  IF view = "chat" /\ ref # NoSession
  THEN [ref |-> Len(sess) + 1,
        sess |-> Append(sess, [createChatSession(model, NoInstruction) EXCEPT
                                 !.history = IF "history" \in DOMAIN sess[ref]
                                             THEN sess[ref].history ELSE <<>>])]
  ELSE [ref |-> ref, sess |-> sess]

\* the effect on [modelType, activeView], run with the values of one render
SessionEffect(view, model, ref, sess) ==
  IF view = "chat" /\ ref # NoSession
  THEN [ref |-> Len(sess) + 1, sess |-> Append(sess, createChatSession(model, NoInstruction))]
  ELSE [ref |-> ref, sess |-> sess]

\* the effect on [activeView]: the model the view forces
ViewModel(view, model) ==
  IF view = "code" THEN PRO ELSE IF view = "chat" THEN FLASH ELSE model

\* sidebar item click: setActiveView(view) and the effects it triggers
SetActiveView(view) ==
  /\ view # activeView
  /\ activeView' = view
  /\ LET m2 == ViewModel(view, modelType)
         r1 == SessionEffect(view, modelType, chatSessionRef, sessions)
         r2 == IF m2 # modelType THEN SessionEffect(view, m2, r1.ref, r1.sess) ELSE r1
     IN /\ Len(r2.sess) <= MaxSessions
        /\ modelType' = m2
        /\ chatSessionRef' = r2.ref
        /\ sessions' = Collect(r2.sess, r2.ref, codeSessionRef, exchanges)
  /\ input' = <<>>
  /\ attachments' = <<>>
  /\ UNCHANGED <<chatMessages, codeMessages, isLoading, codeSessionRef, exchanges,
                 now, env, img, veo, call, design, video, reads>>

\* ModelSelector onSelect, and the [modelType, activeView] effect; the selector
\* is rendered in the chat and code views and disabled while isLoading
SetModelType(m) ==
  /\ activeView \in {"chat", "code"}
  /\ ~isLoading
  /\ m # modelType
  /\ modelType' = m
  /\ LET r == SessionEffect(activeView, m, chatSessionRef, sessions)
     IN /\ Len(r.sess) <= MaxSessions
        /\ chatSessionRef' = r.ref
        /\ sessions' = Collect(r.sess, r.ref, codeSessionRef, exchanges)
  /\ UNCHANGED <<activeView, chatMessages, codeMessages, input, attachments, isLoading,
                 codeSessionRef, exchanges, now, env, img, veo, call, design, video, reads>>

\* handleClearCurrentChat, confirmed
handleClearCurrentChat ==
  /\ activeView \in {"chat", "code"}
  /\ Len(sessions) + 1 <= MaxSessions
  /\ IF activeView = "code"
     THEN /\ codeMessages' = <<>>
          /\ codeSessionRef' = Len(sessions) + 1
          /\ sessions' = Collect(Append(sessions, createChatSession(PRO, clearCodeInstruction)),
                                  chatSessionRef, Len(sessions) + 1, exchanges)
          /\ UNCHANGED <<chatMessages, chatSessionRef>>
     ELSE /\ chatMessages' = <<>>
          /\ chatSessionRef' = Len(sessions) + 1
          /\ sessions' = Collect(Append(sessions, createChatSession(modelType, NoInstruction)),
                                  Len(sessions) + 1, codeSessionRef, exchanges)
          /\ UNCHANGED <<codeMessages, codeSessionRef>>
  /\ attachments' = <<>>
  /\ UNCHANGED <<activeView, input, isLoading, modelType, exchanges, now, env, img, veo,
                 call, design, video, reads>>

\* every handler of the two lanes, any interleaving, on one input text and
\* one fragment text
Next ==
  \/ SetInput(<<" ", "hello", " ">>)
  \/ Tick
  \/ \E d \in 0..1 : handleSendMessage(d)
  \/ \E k \in 1..MaxSends : StreamEstablished(k)
  \/ \E k \in 1..MaxSends : StreamChunk(k, <<"Hi">>)
  \/ \E k \in 1..MaxSends : StreamEnd(k)
  \/ \E k \in 1..MaxSends : StreamFail(k, TransportError)
  \/ \E view \in ViewMode : SetActiveView(view)
  \/ \E i \in 1..Len(AVAILABLE_MODELS) : SetModelType(AVAILABLE_MODELS[i])
  \/ handleClearCurrentChat

InitKey ==
  /\ env = "key"
  /\ InitApp
  /\ img = ImgIdle
  /\ veo = VeoIdle
  /\ call = CallIdle
  /\ design = DesignIdle
  /\ video = VideoIdle

Spec == InitKey /\ [][Next]_vars

\* the streaming exchange with every fragment text, under view switches and clears
NextStream ==
  \/ SetInput(<<"hello">>)
  \/ Tick
  \/ \E d \in 0..1 : handleSendMessage(d)
  \/ \E k \in 1..MaxSends : StreamEstablished(k)
  \/ \E k \in 1..MaxSends : \E text \in Fragments : StreamChunk(k, text)
  \/ \E k \in 1..MaxSends : StreamEnd(k)
  \/ \E k \in 1..MaxSends : StreamFail(k, TransportError)
  \/ \E view \in ViewMode : SetActiveView(view)
  \/ handleClearCurrentChat

SpecStream == InitKey /\ [][NextStream]_vars

\* what is sent: every input text and every attachment list, up to the send
NextPayload ==
  \/ \E text \in TypedInputs : SetInput(text)
  \/ \E file \in Files : AddAttachment(file)
  \/ \E index \in 1..MaxAtt : removeAttachment(index)
  \/ handleSendMessage(0)

SpecPayload == InitKey /\ [][NextPayload]_vars

\* the transmission path of every kind of attachment: files of all kinds are
\* picked and sent, with and without typed text
NextPaths ==
  \/ SetInput(<<"hello">>)
  \/ \E file \in Files \cup MoreFiles \cup CorruptFiles : AddAttachment(file)
  \/ handleSendMessage(0)

SpecPaths == InitKey /\ [][NextPaths]_vars

\* picking archives of every size, and removing them again
NextZip ==
  \/ \E file \in ZipFiles \cup CorruptFiles : AddAttachment(file)
  \/ \E index \in 1..MaxAtt : removeAttachment(index)

SpecZip == InitKey /\ [][NextZip]_vars

\* what the user types and picks around a send: blank and padded text, a text file
SendInputs == {<<" ">>, <<" ", "hello", " ">>}
SendFiles == {file \in Files : file.ext = "py"}

\* sends in both lanes, while nothing and while an exchange is outstanding
NextSend ==
  \/ \E text \in SendInputs : SetInput(text)
  \/ \E file \in SendFiles : AddAttachment(file)
  \/ handleSendMessage(0)
  \/ \E k \in 1..MaxSends : StreamFail(k, TransportError)
  \/ \E view \in {"chat", "code"} : SetActiveView(view)

SpecSend == InitKey /\ [][NextSend]_vars

\* files are picked and their reads finish at any time, around sends and view
\* switches
NextReads ==
  \/ \E files \in Selections : handleFileSelect(files)
  \/ \E r \in reads.started : onload(r)
  \/ \E h \in reads.awaiting : zipLoaded(h)
  \/ SetInput(<<"hello">>)
  \/ handleSendMessage(0)
  \/ \E view \in {"chat", "code"} : SetActiveView(view)

SpecReads == InitKey /\ [][NextReads]_vars

\* session creation and the first send, with and without a configured credential
NextConfig ==
  \/ SetInput(<<"hello">>)
  \/ handleSendMessage(0)
  \/ \E k \in 1..MaxSends : StreamFail(k, TransportError)
  \/ \E view \in ViewMode : SetActiveView(view)
  \/ \E i \in 1..Len(AVAILABLE_MODELS) : SetModelType(AVAILABLE_MODELS[i])
  \/ handleClearCurrentChat

SpecConfig == Init /\ [][NextConfig]_vars

\* ------------------------------------------------------------ generateImage
MaxRetries == 3
RetryStep == 2000

ImageModels == {"gemini-2.5-flash-image", "gemini-3-pro-image-preview"}

\* errors ai.models.generateContent may reject with: status, code, message
ApiErrors ==
  { [status |-> "RESOURCE_EXHAUSTED", code |-> 0, message |-> <<>>],
    [status |-> "", code |-> 429, message |-> <<>>],
    [status |-> "", code |-> 0, message |-> <<"e", "4", "2", "9">>],
    [status |-> "", code |-> 0, message |-> <<"q", "u", "o", "t", "a", "!">>],
    [status |-> "NOT_FOUND", code |-> 404, message |-> <<"4", "0", "4">>],
    [status |-> "", code |-> 0, message |-> <<"q", "u", "o">>] }

\* responses: the parts of candidates[0], each with or without inline data
ImageResponses ==
  { <<>>,
    <<[inlineData |-> FALSE, mimeType |-> "", data |-> ""]>>,
    <<[inlineData |-> FALSE, mimeType |-> "", data |-> ""],
      [inlineData |-> TRUE, mimeType |-> "image/jpeg", data |-> "SlBH"]>>,
    <<[inlineData |-> TRUE, mimeType |-> "", data |-> "UE5H"],
      [inlineData |-> TRUE, mimeType |-> "image/jpeg", data |-> "SlBH"]>> }

\* String.prototype.includes
Includes(s, t) ==
  \E i \in 0..(Len(s) - Len(t)) : SubSeq(s, i + 1, i + Len(t)) = t

is429(err) ==
  \/ err.status = "RESOURCE_EXHAUSTED"
  \/ err.code = 429
  \/ Includes(err.message, <<"4", "2", "9">>)
  \/ Includes(err.message, <<"q", "u", "o", "t", "a">>)

ShouldRetryAny(error, retryCount) == retryCount < MaxRetries

\* the catch of attemptGenerate: retry or rethrow
ShouldRetry(error, retryCount) == is429(error) /\ retryCount < MaxRetries

RetryDelayDoubling(retryCount) == RetryStep * (2 ^ retryCount)

\* const delay = (retryCount + 1) * 2000
RetryDelay(retryCount) == (retryCount + 1) * RetryStep

NullResult == <<"null">>

\* the loop over candidates[0].content.parts
RECURSIVE ImageResult(_)
ImageResult(parts) ==
  IF parts = <<>> THEN NullResult
  ELSE IF Head(parts).inlineData /\ Head(parts).data # ""
  THEN <<"data:", IF Head(parts).mimeType # "" THEN Head(parts).mimeType ELSE "image/png",
         ";base64,", Head(parts).data>>
  ELSE ImageResult(Tail(parts))

\* generateImage(prompt, model) is called
ImgCall(model) ==
  /\ img.pc = "idle"
  /\ img' = [pc |-> "attempt", model |-> model, retryCount |-> 0, attempts |-> 0,
             waits |-> <<>>, errors |-> <<>>, response |-> <<>>, result |-> NullResult,
             error |-> [status |-> "", code |-> 0, message |-> <<>>]]
  /\ UNCHANGED <<appVars, env, veo, call, design, video, reads>>

\* generateContent resolves
ImgAttemptOk(response) ==
  /\ img.pc = "attempt"
  /\ img' = [img EXCEPT !.pc = "returned", !.attempts = @ + 1, !.response = response,
                        !.result = ImageResult(response)]
  /\ UNCHANGED <<appVars, env, veo, call, design, video, reads>>

\* generateContent rejects
ImgAttemptErr(error) ==
  /\ img.pc = "attempt"
  /\ IF ShouldRetry(error, img.retryCount)
     THEN img' = [img EXCEPT !.pc = "waiting", !.attempts = @ + 1,
                             !.errors = Append(@, error),
                             !.waits = Append(@, RetryDelay(img.retryCount))]
     ELSE img' = [img EXCEPT !.pc = "thrown", !.attempts = @ + 1,
                             !.errors = Append(@, error), !.error = error]
  /\ UNCHANGED <<appVars, env, veo, call, design, video, reads>>

\* the timer fires: attemptGenerate(retryCount + 1)
ImgWake ==
  /\ img.pc = "waiting"
  /\ img' = [img EXCEPT !.pc = "attempt", !.retryCount = @ + 1]
  /\ UNCHANGED <<appVars, env, veo, call, design, video, reads>>

\* the caller has the result or the error
ImgFinish ==
  /\ img.pc \in {"returned", "thrown"}
  /\ img' = ImgIdle
  /\ UNCHANGED <<appVars, env, veo, call, design, video, reads>>

NextImage ==
  \/ \E model \in ImageModels : ImgCall(model)
  \/ \E response \in ImageResponses : ImgAttemptOk(response)
  \/ \E error \in ApiErrors : ImgAttemptErr(error)
  \/ ImgWake
  \/ ImgFinish

SpecImage == Init /\ [][NextImage]_vars

\* the streaming exchange under every error the service may raise, while the
\* stream is being established or consumed
NextRetry ==
  \/ SetInput(<<"hello">>)
  \/ handleSendMessage(0)
  \/ \E k \in 1..MaxSends : StreamEstablished(k)
  \/ \E k \in 1..MaxSends : StreamChunk(k, <<"Hi">>)
  \/ \E k \in 1..MaxSends : StreamEnd(k)
  \/ \E k \in 1..MaxSends : \E error \in ApiErrors \cup {TransportError} : StreamFail(k, error)

SpecRetry == InitKey /\ [][NextRetry]_vars

\* the await of sendMessageStream settles, the for await loop ends or throws
StreamSettles ==
  \E k \in 1..MaxSends :
     StreamEstablished(k) \/ StreamEnd(k) \/ StreamFail(k, TransportError)

\* the exchange when every stream terminates: sends in both lanes, exhausted
\* and failing streams
NextUsable ==
  \/ SetInput(<<"hello">>)
  \/ Tick
  \/ handleSendMessage(0)
  \/ \E k \in 1..MaxSends : StreamChunk(k, <<"Hi">>)
  \/ StreamSettles
  \/ \E view \in ViewMode : SetActiveView(view)

SpecUsable == InitKey /\ [][NextUsable]_vars /\ WF_vars(StreamSettles)

\* --------------------------------------------------------- generateVeoVideo
MaxPolls == 5
PollWait == 5000

AspectRatios == {"16:9", "9:16"}

NoUri == "<undefined>"

\* operation objects the service may answer with
Operations ==
  { [done |-> FALSE, uri |-> NoUri],
    [done |-> TRUE, uri |-> "https://v/1?alt=media"],
    [done |-> TRUE, uri |-> "https://v/2?alt=media"],
    [done |-> TRUE, uri |-> NoUri] }

\* `${process.env.API_KEY}`
KeyText == IF env = "UNSET" THEN "undefined" ELSE env

KeepPollingNever(operation) == FALSE

\* while (!operation.done)
KeepPolling(operation) == ~operation.done

\* the value returned once the loop has ended
VideoResult(operation) ==
  IF operation.uri # NoUri THEN <<operation.uri, "&key=", KeyText>> ELSE NullResult

VeoReceiveStale(v, operation) ==
  IF KeepPolling(operation)
  THEN [v EXCEPT !.pc = "waiting", !.operation = operation, !.ops = Append(@, operation),
                 !.waits = Append(@, PollWait)]
  ELSE [v EXCEPT !.pc = "returned", !.operation = operation, !.ops = Append(@, operation),
                 !.result = VideoResult(v.operation)]

\* the operation just received: loop again (start the 5000ms wait) or return
VeoReceive(v, operation) ==
  IF KeepPolling(operation)
  THEN [v EXCEPT !.pc = "waiting", !.operation = operation, !.ops = Append(@, operation),
                 !.waits = Append(@, PollWait)]
  ELSE [v EXCEPT !.pc = "returned", !.operation = operation, !.ops = Append(@, operation),
                 !.result = VideoResult(operation)]

\* generateVeoVideo(prompt, aspectRatio) is called: generateVideos is requested
VeoCall(aspectRatio) ==
  /\ veo.pc = "idle"
  /\ veo' = [pc |-> "submitting", aspectRatio |-> aspectRatio, polls |-> 0, waits |-> <<>>,
             ops |-> <<>>, operation |-> [done |-> FALSE, uri |-> NoUri],
             result |-> NullResult]
  /\ UNCHANGED <<appVars, env, img, call, design, video, reads>>

\* generateVideos resolves
VeoSubmitted(operation) ==
  /\ veo.pc = "submitting"
  /\ veo' = VeoReceive(veo, operation)
  /\ UNCHANGED <<appVars, env, img, call, design, video, reads>>

\* the 5000ms timer fires: getVideosOperation is requested
VeoWake ==
  /\ veo.pc = "waiting"
  /\ veo.polls < MaxPolls
  /\ veo' = [veo EXCEPT !.pc = "polling", !.polls = @ + 1]
  /\ UNCHANGED <<appVars, env, img, call, design, video, reads>>

\* getVideosOperation resolves
VeoPolled(operation) ==
  /\ veo.pc = "polling"
  /\ veo' = VeoReceive(veo, operation)
  /\ UNCHANGED <<appVars, env, img, call, design, video, reads>>

\* generateVideos or getVideosOperation rejects: catch, rethrow
VeoFail ==
  /\ veo.pc \in {"submitting", "polling"}
  /\ veo' = [veo EXCEPT !.pc = "thrown"]
  /\ UNCHANGED <<appVars, env, img, call, design, video, reads>>

\* the caller has the result or the error
VeoFinish ==
  /\ veo.pc \in {"returned", "thrown"}
  /\ veo' = VeoIdle
  /\ UNCHANGED <<appVars, env, img, call, design, video, reads>>

NextVeo ==
  \/ \E aspectRatio \in AspectRatios : VeoCall(aspectRatio)
  \/ \E operation \in Operations : VeoSubmitted(operation)
  \/ VeoWake
  \/ \E operation \in Operations : VeoPolled(operation)
  \/ VeoFail
  \/ VeoFinish

SpecVeo == Init /\ [][NextVeo]_vars

\* ------------------------------------ generateDesignSystem, website stream
DesignPrompts == {<<"shop">>, <<"blog">>}

\* response.text of generateContent: bare JSON, fenced JSON, no text, not JSON
DesignTexts ==
  { <<"{", "Cyberpunk", "}">>,
    <<"<fence json>", " ", "{", "Corporate", "}", " ", "<fence>">>,
    <<>>,
    <<"I", " ", "cannot">> }

\* the design the catch block returns
DefaultDesign == <<"{", "Minimalist", "}">>

\* the two replace calls that drop the code fences, then trim()
StripFences(text) == Trim(SelectSeq(text, LAMBDA t : t \notin {"<fence json>", "<fence>"}))

\* JSON.parse accepts the text
IsJson(text) == Len(text) = 3 /\ text[1] = "{" /\ text[3] = "}"

\* generateDesignSystem(prompt) is called: generateContent is requested
DesignCall(prompt) ==
  /\ design.pc = "idle"
  /\ design' = [pc |-> "requesting", prompt |-> prompt, result |-> NullResult,
                remoteError |-> NoError, parseError |-> FALSE]
  /\ UNCHANGED <<appVars, env, img, veo, call, video, reads>>

\* generateContent resolves: parse, or the catch and its default design
DesignResolved(responseText) ==
  /\ design.pc = "requesting"
  /\ LET text == StripFences(IF responseText # <<>> THEN responseText ELSE <<"{", "}">>)
     IN design' = IF IsJson(text) \/ text = <<"{", "}">>
                  THEN [design EXCEPT !.pc = "returned", !.result = text]
                  ELSE [design EXCEPT !.pc = "returned", !.result = DefaultDesign,
                                      !.parseError = TRUE]
  /\ UNCHANGED <<appVars, env, img, veo, call, video, reads>>

\* generateContent rejects: the catch returns the default design
DesignRejected(error) ==
  /\ design.pc = "requesting"
  /\ design' = [design EXCEPT !.pc = "returned", !.result = DefaultDesign,
                              !.remoteError = error]
  /\ UNCHANGED <<appVars, env, img, veo, call, video, reads>>

\* the caller has the design
DesignFinish ==
  /\ design.pc = "returned"
  /\ design' = DesignIdle
  /\ UNCHANGED <<appVars, env, img, veo, call, video, reads>>

\* generateWebsiteCodeStream is called: attemptStream('gemini-3-pro-preview');
\* requests are the models asked in order, errors what the attempts rejected with
WebCall ==
  /\ call.pc = "idle"
  /\ call' = [pc |-> "attempt", model |-> PRO, requests |-> <<PRO>>, errors |-> <<>>,
              thrown |-> NoError, arrived |-> <<>>, yielded |-> <<>>]
  /\ UNCHANGED <<appVars, env, img, veo, design, video, reads>>

\* generateContentStream resolves: the stream wrapper is returned
WebAttemptOk ==
  /\ call.pc = "attempt"
  /\ call' = [call EXCEPT !.pc = "returned"]
  /\ UNCHANGED <<appVars, env, img, veo, design, video, reads>>

RethrownFirst(error, retryError) == error

\* throw retryError
Rethrown(error, retryError) == retryError

\* generateContentStream rejects: fall back to Flash once, then rethrow
WebAttemptErr(error) ==
  /\ call.pc = "attempt"
  /\ call' = IF call.model = PRO
             THEN [call EXCEPT !.model = FLASH, !.requests = Append(@, FLASH),
                               !.errors = Append(@, error)]
             ELSE [call EXCEPT !.pc = "thrown", !.errors = Append(@, error),
                               !.thrown = Rethrown(call.errors[1], error)]
  /\ UNCHANGED <<appVars, env, img, veo, design, video, reads>>

\* chunk.text of the chunks of responseStream: text, the empty string, undefined
WebChunkTexts == Fragments \cup {Undefined}

\* the consumer asks for the next value and responseStream delivers a chunk:
\* if (chunk.text) yield chunk.text
WebChunk(text) ==
  /\ call.pc = "returned"
  /\ "arrived" \in DOMAIN call
  /\ Len(call.arrived) < MaxFrags
  /\ call' = [call EXCEPT !.arrived = Append(@, text),
                          !.yielded = IF text # <<>> /\ text # Undefined
                                      THEN Append(@, text) ELSE @]
  /\ UNCHANGED <<appVars, env, img, veo, design, video, reads>>

\* responseStream is exhausted: the consumer's loop ends
WebStreamEnd ==
  /\ call.pc = "returned"
  /\ "arrived" \in DOMAIN call
  /\ call' = [call EXCEPT !.pc = "exhausted"]
  /\ UNCHANGED <<appVars, env, img, veo, design, video, reads>>

\* responseStream rejects while it is iterated: the generator, which has left
\* the try of generateWebsiteCodeStream long ago, lets the error through
WebStreamErr(error) ==
  /\ call.pc = "returned"
  /\ "arrived" \in DOMAIN call
  /\ call' = [call EXCEPT !.pc = "consumer caught", !.thrown = error]
  /\ UNCHANGED <<appVars, env, img, veo, design, video, reads>>

\* ------------------------------------------- sendMessageStream, called directly
MaxInline == 2

\* data strings a caller may pass: data URLs, bare base64, the empty string
InlineData ==
  { <<"data:", "image", "/", "png", ";base64", ",", "QUJD">>,
    <<"data:", "application", "/", "pdf", ";base64", ",", "REVG">>,
    <<"QUJD">>,
    <<>> }

InlineMimeTypes == { <<"image", "/", "png">>, <<"application", "/", "pdf">> }

\* the attachments argument: lists of { data, mimeType }
RECURSIVE InlineLists(_)
InlineLists(n) ==
  IF n = 0 THEN {<<>>}
  ELSE InlineLists(n - 1) \cup
       {Append(l, [data |-> d, mimeType |-> m]) :
          l \in {x \in InlineLists(n - 1) : Len(x) = n - 1}, d \in InlineData, m \in InlineMimeTypes}

\* sendMessageStream(chat, message, attachments) up to chat.sendMessageStream
CallSendMessageStream(message, atts) ==
  /\ call.pc = "idle"
  /\ call' = [pc |-> "sent", message |-> message, attachments |-> atts,
              payload |-> MessagePayload(message, atts)]
  /\ UNCHANGED <<appVars, env, img, veo, design, video, reads>>

\* the call has settled
CallSettled ==
  /\ call.pc \in {"sent", "returned", "thrown"}
  /\ call' = CallIdle
  /\ UNCHANGED <<appVars, env, img, veo, design, video, reads>>

NextInline ==
  \/ \E message \in {<<>>, <<"hello">>} : \E atts \in InlineLists(MaxInline) :
        CallSendMessageStream(message, atts)
  \/ CallSettled

SpecInline == Init /\ [][NextInline]_vars

\* the service calls that recover from a remote failure: a default design, a
\* second model
NextDesign ==
  \/ \E prompt \in DesignPrompts : DesignCall(prompt)
  \/ \E responseText \in DesignTexts : DesignResolved(responseText)
  \/ \E error \in ApiErrors : DesignRejected(error)
  \/ DesignFinish
  \/ WebCall
  \/ WebAttemptOk
  \/ \E error \in ApiErrors : WebAttemptErr(error)
  \/ CallSettled

SpecDesign == Init /\ [][NextDesign]_vars

\* one call of generateWebsiteCodeStream and the consumption of what it returns
NextWeb ==
  \/ WebCall
  \/ WebAttemptOk
  \/ \E error \in ApiErrors : WebAttemptErr(error)
  \/ \E text \in WebChunkTexts : WebChunk(text)
  \/ WebStreamEnd
  \/ \E error \in ApiErrors : WebStreamErr(error)

SpecWeb == InitKey /\ [][NextWeb]_vars

\* ------------------------------------------- createChatSession, called directly
MaxInstr == 2

InstructionTokens == {" ", "Be", "brief", "Reply in Arabic"}

\* the systemInstruction argument: a string, or left out
RECURSIVE InstructionTexts(_)
InstructionTexts(n) ==
  IF n = 0 THEN {<<>>}
  ELSE InstructionTexts(n - 1) \cup
       {Append(t, x) : t \in {y \in InstructionTexts(n - 1) : Len(y) = n - 1}, x \in InstructionTokens}

Instructions == InstructionTexts(MaxInstr) \cup {NoInstruction}

\* createChatSession(model, systemInstruction?) returns
CallCreateChatSession(model, systemInstruction) ==
  /\ call.pc = "idle"
  /\ call' = [pc |-> "returned", model |-> model, systemInstruction |-> systemInstruction,
              session |-> createChatSession(model, systemInstruction), errors |-> <<>>]
  /\ UNCHANGED <<appVars, env, img, veo, design, video, reads>>

NextCreate ==
  \/ \E i \in 1..Len(AVAILABLE_MODELS) : \E systemInstruction \in Instructions :
        CallCreateChatSession(AVAILABLE_MODELS[i], systemInstruction)
  \/ CallSettled

SpecCreate == Init /\ [][NextCreate]_vars

\* ------------------------------------------------------------ VideoGenerator
\* errors generateVeoVideo may reject with; an error without a message is read
\* through toString()
VideoErrors ==
  { [status |-> "NOT_FOUND", code |-> 404, message |-> <<"e", " ", "4", "0", "4">>],
    [status |-> "", code |-> 0, message |-> <<"n", "o", "t", " ", "f", "o", "u", "n", "d">>],
    [status |-> "", code |-> 0, message |-> <<"N", "O", "T", "_", "F", "O", "U", "N", "D">>],
    [status |-> "", code |-> 0, message |-> <<"N", "o", "t", " ", "F", "o", "u", "n", "d">>],
    [status |-> "", code |-> 429, message |-> <<"q", "u", "o", "t", "a">>],
    [status |-> "", code |-> 0, message |-> <<>>] }

\* err.message || err.toString()
ErrorMessage(err) == IF err.message # <<>> THEN err.message ELSE <<"E", "r", "r", "o", "r">>

\* the test of the catch block for the 404/NotFound class
IsNotFound(err) ==
  \/ Includes(ErrorMessage(err), <<"4", "0", "4">>)
  \/ Includes(ErrorMessage(err), <<"n", "o", "t", " ", "f", "o", "u", "n", "d">>)
  \/ Includes(ErrorMessage(err), <<"N", "O", "T", "_", "F", "O", "U", "N", "D">>)

\* textarea onChange
VideoSetPrompt(text) ==
  /\ video' = [video EXCEPT !.prompt = text]
  /\ UNCHANGED <<appVars, env, img, veo, call, design, reads>>

\* the two aspect ratio buttons
VideoSetAspectRatio(aspectRatio) ==
  /\ video' = [video EXCEPT !.aspectRatio = aspectRatio]
  /\ UNCHANGED <<appVars, env, img, veo, call, design, reads>>

\* handleGenerate up to await generateVeoVideo(prompt, aspectRatio)
handleGenerate ==
  /\ ~(Trim(video.prompt) = <<>> \/ video.isLoading)
  /\ video' = [video EXCEPT !.isLoading = TRUE, !.error = NoMessage, !.videoUrl = <<"null">>,
                            !.needsKey = FALSE, !.caught = NoError, !.requests = 1]
  /\ UNCHANGED <<appVars, env, img, veo, call, design, reads>>

\* generateVeoVideo resolves with a URL or null; finally
VideoResolved(result) ==
  /\ video.isLoading
  /\ video' = IF result # NullResult
              THEN [video EXCEPT !.videoUrl = result, !.isLoading = FALSE]
              ELSE [video EXCEPT !.error = EmptyResultMessage, !.isLoading = FALSE]
  /\ UNCHANGED <<appVars, env, img, veo, call, design, reads>>

\* generateVeoVideo rejects: catch, finally
VideoRejected(err) ==
  /\ video.isLoading
  /\ video' = IF IsNotFound(err) /\ video.aistudio
              THEN [video EXCEPT !.needsKey = TRUE, !.error = BillingMessage,
                                 !.isLoading = FALSE, !.caught = err]
              ELSE [video EXCEPT !.error = ConnectionMessage,
                                 !.isLoading = FALSE, !.caught = err]
  /\ UNCHANGED <<appVars, env, img, veo, call, design, reads>>

\* handleSelectKey: the button is shown with the error when needsKey is set;
\* opened: whether aistudio.openSelectKey() resolves
handleSelectKey(opened) ==
  /\ video.error # NoMessage
  /\ video.needsKey
  /\ video' = IF video.aistudio /\ opened
              THEN [video EXCEPT !.needsKey = FALSE, !.error = NoMessage]
              ELSE video
  /\ UNCHANGED <<appVars, env, img, veo, call, design, reads>>

NextVideo ==
  \/ \E text \in {<<>>, <<"car">>, <<" ">>} : VideoSetPrompt(text)
  \/ \E aspectRatio \in AspectRatios : VideoSetAspectRatio(aspectRatio)
  \/ handleGenerate
  \/ \E result \in {NullResult, <<"https://v/1?alt=media", "&key=", KeyText>>} : VideoResolved(result)
  \/ \E err \in VideoErrors : VideoRejected(err)
  \/ \E opened \in BOOLEAN : handleSelectKey(opened)

\* the video view, inside and outside AI Studio
InitVideo ==
  /\ env \in EnvKeys
  /\ InitApp
  /\ img = ImgIdle
  /\ veo = VeoIdle
  /\ call = CallIdle
  /\ design = DesignIdle
  /\ video \in {VideoMounted(aistudio) : aistudio \in BOOLEAN}

SpecVideo == InitVideo /\ [][NextVideo]_vars

\* ------------------------------------------------------------------ claims
InFlight(k) == exchanges[k].phase \in {"establishing", "streaming"}

\* the positions of the placeholder exchange k created, in the lane it was sent in
PlaceholderAt(k) ==
  {i \in 1..Len(Lane(exchanges[k].view)) :
     Lane(exchanges[k].view)[i].ex = k /\ Lane(exchanges[k].view)[i].role = MODEL}

RECURSIVE Concat(_)
Concat(frags) == IF frags = <<>> THEN <<>> ELSE Head(frags) \o Concat(Tail(frags))

Last == Len(exchanges)

\* C1: once the stream of an exchange is exhausted, the placeholder that send
\* created holds the fragments delivered, concatenated in delivery order, each
\* once, and its error flag is not set.
C1_ContentIsConcatenation ==
  (Last > 0 /\ exchanges[Last].phase = "done") =>
     \A i \in PlaceholderAt(Last) :
        /\ Lane(exchanges[Last].view)[i].content = Concat(exchanges[Last].delivered)
        /\ ~Lane(exchanges[Last].view)[i].isError

C1_Witness ==
  /\ Last > 0
  /\ exchanges[Last].phase = "done"
  /\ exchanges[Last].delivered = << <<"Hi">>, <<" ", "there">> >>
  /\ PlaceholderAt(Last) # {}
  /\ activeView # exchanges[Last].view

\* C2: an exchange that fails after k >= 0 fragments leaves its placeholder with
\* the fixed failure string as content, none of the fragments, and the error
\* flag set.
C2_FailureReplacesContent ==
  (Last > 0 /\ exchanges[Last].phase = "failed") =>
     \A i \in PlaceholderAt(Last) :
        /\ Lane(exchanges[Last].view)[i].content = FailureString
        /\ Lane(exchanges[Last].view)[i].isError

C2_Witness ==
  /\ Last > 0
  /\ exchanges[Last].phase = "failed"
  /\ exchanges[Last].accumulatedText = <<"Hi", " ", "there">>
  /\ PlaceholderAt(Last) # {}

\* the parts the session receives: a bare string message is one text part
PartsOf(payload) ==
  IF payload.kind = "string"
  THEN <<[part |-> "text", data |-> payload.text, mimeType |-> <<>>]>>
  ELSE payload.parts

BinaryKinds == {"image", "video", "pdf"}

\* the binary-kind attachments of a list, in list order
Binaries(atts) == SelectSeq(atts, LAMBDA att : att.type \in BinaryKinds)

IsSuffix(t, s) == Len(t) <= Len(s) /\ SubSeq(s, Len(s) - Len(t) + 1, Len(s)) = t

\* C3: the payload holds one inline part per binary-kind attachment, in the
\* order of the attachment list, all before a single trailing text part; no
\* text-kind attachment is an inline part.
C3_InlinePartsInOrder ==
  \A k \in 1..Len(exchanges) :
     LET parts == PartsOf(exchanges[k].payload)
         bins == Binaries(exchanges[k].displayAttachments)
     IN /\ Len(parts) = Len(bins) + 1
        /\ parts[Len(parts)].part = "text"
        /\ \A i \in 1..Len(bins) :
              /\ parts[i].part = "inlineData"
              /\ parts[i].mimeType = bins[i].mimeType
              /\ IsSuffix(parts[i].data, bins[i].data)

C3_Witness ==
  \E k \in 1..Len(exchanges) :
     /\ Len(exchanges[k].displayAttachments) = 3
     /\ exchanges[k].displayAttachments[1].type = "pdf"
     /\ exchanges[k].displayAttachments[2].type = "code"
     /\ exchanges[k].displayAttachments[3].type = "image"
     /\ exchanges[k].payload.kind = "parts"

Running(p) == p.pc # "idle"

\* C4: when every attempt fails with a quota error, generateImage makes 4
\* attempts, waits 2000, 4000 and 6000 ms before the retries and throws the
\* error of the 4th attempt; when an attempt succeeds its result is returned
\* and that attempt is the last.
C4_QuotaRetries ==
  Running(img) =>
    /\ (img.pc = "thrown" /\ \A i \in 1..Len(img.errors) : is429(img.errors[i])) =>
          /\ img.attempts = 4
          /\ img.waits = <<2000, 4000, 6000>>
          /\ img.error = img.errors[4]
    /\ img.pc = "returned" =>
          /\ img.attempts = Len(img.errors) + 1
          /\ img.result = ImageResult(img.response)
          /\ img.waits = [i \in 1..Len(img.errors) |-> 2000 * i]

C4_Witness ==
  /\ Running(img)
  /\ img.pc = "thrown"
  /\ img.attempts = 4
  /\ \A i \in 1..Len(img.errors) : is429(img.errors[i])

\* C5: an error outside the quota class is thrown at once, with no wait and
\* no further attempt, on the first attempt or after earlier quota errors.
C5_OtherErrorsPropagate ==
  Running(img) =>
    \A i \in 1..Len(img.errors) :
       ~is429(img.errors[i]) =>
          /\ i = Len(img.errors)
          /\ img.pc = "thrown"
          /\ img.error = img.errors[i]
          /\ img.attempts = i
          /\ Len(img.waits) = i - 1

C5_Witness ==
  /\ Running(img)
  /\ img.pc = "thrown"
  /\ Len(img.errors) = 3
  /\ ~is429(img.errors[3])

DoneFlags(ops) == [i \in 1..Len(ops) |-> ops[i].done]

\* C6: with done=false on submission and on the first 3 polls and done=true on
\* the 4th, generateVeoVideo makes 4 polls, each after a 5000 ms wait, none
\* after the done one, and returns what the 4th poll's response holds.
C6_FourPolls ==
  (Running(veo) /\ DoneFlags(veo.ops) = <<FALSE, FALSE, FALSE, FALSE, TRUE>>) =>
     /\ veo.pc = "returned"
     /\ veo.polls = 4
     /\ veo.waits = <<5000, 5000, 5000, 5000>>
     /\ veo.result = VideoResult(veo.ops[5])

C6_Witness ==
  /\ Running(veo)
  /\ veo.pc = "returned"
  /\ DoneFlags(veo.ops) = <<FALSE, FALSE, FALSE, FALSE, TRUE>>
  /\ veo.result # NullResult

\* C7: after the user picks a model in the selector, the next exchange of the
\* active lane (chat or code) runs on a session bound to the picked variant.
C7_ExchangeOnSelectedVariant ==
  [][Len(exchanges') = Len(exchanges) + 1 =>
       sessions[exchanges'[Len(exchanges')].session].model = modelType]_vars

\* C8: without a configured credential createChatSession returns no session,
\* so no lane holds one.
C8_NoSessionWithoutCredential ==
  env = "UNSET" => (chatSessionRef = NoSession /\ codeSessionRef = NoSession)

\* C9: no two exchanges whose streams have not ended were issued on the same
\* session; while one is outstanding the loading flag is set, which refuses
\* a send.
C9_OneExchangePerSession ==
  /\ \A j, k \in 1..Len(exchanges) :
        (j # k /\ InFlight(j) /\ InFlight(k)) => exchanges[j].session # exchanges[k].session
  /\ (\E k \in 1..Len(exchanges) : InFlight(k)) => (isLoading /\ ~SendGuard)

C9_Witness ==
  /\ Len(exchanges) = 2
  /\ InFlight(2)
  /\ exchanges[1].session = exchanges[2].session
  /\ Trim(input) # <<>>

\* C10: in a lane's list no two messages share an identifier and a message
\* created later has a greater identifier than every earlier one.
C10_UniqueMonotonicIds ==
  \A view \in {"chat", "code"} :
     \A i, j \in 1..Len(Lane(view)) :
        i < j => Lane(view)[i].id < Lane(view)[j].id

\* a message no exchange is still writing: a user message, or a model message
\* whose exchange has ended
Finalized(msg) == msg.role = USER \/ exchanges[msg.ex].phase \in {"done", "failed"}

\* C11: a finalized message (a user message, or a model message whose exchange
\* has ended by exhaustion or failure) keeps its content and its error flag in
\* every later step, for as long as it remains in its lane's list.
C11_FinalizedIsImmutable ==
  [][\A view \in {"chat", "code"} :
       \A i \in 1..Len(Lane(view)) :
          (Finalized(Lane(view)[i]) /\ i <= Len(Lane(view)')) =>
             /\ Lane(view)'[i].content = Lane(view)[i].content
             /\ Lane(view)'[i].isError = Lane(view)[i].isError]_vars

\* the attachments of a list that are not of a binary kind, in list order
NonBinaries(atts) == SelectSeq(atts, LAMBDA att : att.type \notin BinaryKinds)

\* the data of the attachments of a list, each preceded by a blank line
RECURSIVE BlankLineJoined(_)
BlankLineJoined(atts) ==
  IF atts = <<>> THEN <<>> ELSE <<"\n\n">> \o Head(atts).data \o BlankLineJoined(Tail(atts))

\* the text handed to the session with the payload
SentText(payload) == PartsOf(payload)[Len(PartsOf(payload))].data

\* the positions of the user message exchange k created, in its lane
UserMessageAt(k) ==
  {i \in 1..Len(Lane(exchanges[k].view)) :
     Lane(exchanges[k].view)[i].ex = k /\ Lane(exchanges[k].view)[i].role = USER}

\* C12: of the attachments present at a send, those of kind image, video or
\* pdf are exactly the inline list and add nothing to the sent text; those of
\* every other kind (text, code, zip) are exactly what is appended to the typed
\* text, in attachment order, each after a blank line, and are not inline.
C12_OnePathPerAttachment ==
  \A k \in 1..Len(exchanges) :
     LET atts == exchanges[k].displayAttachments
         parts == PartsOf(exchanges[k].payload)
     IN /\ Len(parts) = Len(Binaries(atts)) + 1
        /\ \A i \in 1..Len(Binaries(atts)) :
              /\ parts[i].part = "inlineData"
              /\ parts[i].mimeType = Binaries(atts)[i].mimeType
        /\ \A i \in UserMessageAt(k) :
              SentText(exchanges[k].payload) =
                 Lane(exchanges[k].view)[i].content \o BlankLineJoined(NonBinaries(atts))

C12_Witness ==
  \E k \in 1..Len(exchanges) :
     /\ [i \in 1..Len(exchanges[k].displayAttachments) |-> exchanges[k].displayAttachments[i].type]
           = <<"zip", "video", "text">>
     /\ \E i \in UserMessageAt(k) : Lane(exchanges[k].view)[i].content = <<"hello">>
     /\ Len(PartsOf(exchanges[k].payload)) = 2

\* the number of commas in a string
RECURSIVE Commas(_)
Commas(s) == IF s = <<>> THEN 0 ELSE (IF Head(s) = "," THEN 1 ELSE 0) + Commas(Tail(s))

\* what follows the first comma of a string that has one
RECURSIVE AfterComma(_)
AfterComma(s) == IF Head(s) = "," THEN Tail(s) ELSE AfterComma(Tail(s))

\* C13: the data of every inline part sendMessageStream transmits is the
\* attachment's data without its data-URI prefix: '<prefix>,<payload>' is sent
\* as '<payload>', and data with no prefix is sent unchanged.
C13_PrefixStripped ==
  (call.pc = "sent" /\ call.payload.kind = "parts") =>
     \A i \in 1..Len(call.attachments) :
        LET data == call.attachments[i].data
            sent == call.payload.parts[i].data
        IN /\ Commas(data) = 1 => sent = AfterComma(data)
           /\ Commas(data) = 0 => sent = data

\* the lane an exchange was not sent in, and the session ref of a lane
OtherLane(view) == IF view = "code" THEN "chat" ELSE "code"
SessionRef(view) == IF view = "code" THEN codeSessionRef ELSE chatSessionRef

\* a step of the stream of exchange k: established, fragment, exhausted, failed
StreamStepOf(k) == Len(exchanges') = Len(exchanges) /\ exchanges'[k] # exchanges[k]

\* C14: an exchange stays bound to the lane it was sent in. A view switch
\* leaves every exchange as it is; every stream step of an exchange, whatever
\* the active view, leaves the other lane's list, session ref and session
\* untouched and puts the accumulated text, or the failure string, into the
\* placeholder in the exchange's own lane.
C14_ExchangeBoundToLane ==
  [][/\ activeView' # activeView => exchanges' = exchanges
     /\ \A k \in 1..Len(exchanges) :
          StreamStepOf(k) =>
             LET own == exchanges[k].view
                 other == OtherLane(own)
             IN /\ Lane(other)' = Lane(other)
                /\ SessionRef(other)' = SessionRef(other)
                /\ sessions'[SessionRef(other)] = sessions[SessionRef(other)]
                /\ \A i \in PlaceholderAt(k) :
                      Lane(own)'[i].content =
                         IF exchanges'[k].phase = "failed" THEN FailureString
                         ELSE exchanges'[k].accumulatedText]_vars

C14_Witness ==
  /\ Len(exchanges) = 2
  /\ exchanges[1].view = "code"
  /\ exchanges[2].view = "chat"
  /\ activeView = "code"
  /\ exchanges[2].phase = "failed"
  /\ exchanges[2].delivered # <<>>
  /\ codeMessages # <<>>
  /\ \E i \in PlaceholderAt(2) : chatMessages[i].content = FailureString

\* C15: the streaming path never retries. Every accepted send has issued one
\* stream request on its session, and an exchange that caught an error, of the
\* quota class or not, while the stream was established or consumed, has ended
\* as failed, its placeholder flagged, with no second request.
C15_NoStreamRetry ==
  \A k \in 1..Len(exchanges) :
     /\ exchanges[k].requests = 1
     /\ exchanges[k].error # NoError =>
           /\ exchanges[k].phase = "failed"
           /\ \A i \in PlaceholderAt(k) : Lane(exchanges[k].view)[i].isError

C15_Witness ==
  \E k \in 1..Len(exchanges) :
     /\ is429(exchanges[k].error)
     /\ exchanges[k].phase = "failed"
     /\ exchanges[k].delivered # <<>>
     /\ PlaceholderAt(k) # {}
     /\ ~isLoading

\* C16: no remote failure is swallowed. A service call whose remote request
\* failed, and was not followed by a request that succeeded, ends thrown (or
\* as a failed message), never returned like a success.
C16_NoSwallowedFailure ==
  /\ (design.pc = "returned") => design.remoteError = NoError
  /\ (call.pc = "thrown") <=> (call.pc # "idle" /\ call.pc # "sent" /\ Len(call.errors) = 2)

\* C17: when generateVeoVideo rejects with an error of the not-found class
\* (message containing '404', 'not found' or 'NOT_FOUND'), the video view shows
\* the billing message, not the connection-error message, enables the key
\* selection, and issues no further request.
C17_NotFoundShowsBilling ==
  [][(video.isLoading /\ ~video'.isLoading /\ IsNotFound(video'.caught)) =>
        /\ video'.error = BillingMessage
        /\ video'.needsKey
        /\ video'.requests = 1]_vars

\* a session createChatSession has just returned to a direct caller
Created == call.pc = "returned" /\ "session" \in DOMAIN call

C19_FreshSessionOnModelChange ==
  [][(modelType' # modelType /\ chatSessionRef' # chatSessionRef) =>
        /\ sessions'[chatSessionRef'].history = <<>>
        /\ sessions'[chatSessionRef'].model = modelType'
        /\ chatMessages' = chatMessages
        /\ codeMessages' = codeMessages
        /\ codeSessionRef' = codeSessionRef]_vars

C19_Witness ==
  /\ Len(exchanges) = 1
  /\ exchanges[1].phase = "done"
  /\ exchanges[1].view = "chat"
  /\ exchanges[1].accumulatedText # <<>>
  /\ exchanges[1].session # chatSessionRef
  /\ Len(chatMessages) = 2
  /\ activeView = "chat"
  /\ modelType = FLASH_LITE
  /\ sessions[chatSessionRef].model = FLASH_LITE
  /\ sessions[chatSessionRef].history = <<>>

\* exchange k fails in this step
FailsNow(k) == exchanges[k].phase # "failed" /\ exchanges'[k].phase = "failed"

\* after every accepted send the loading flag returns to false
C20_LoadingEnds == isLoading ~> ~isLoading

\* with the flag down and text typed, a send is accepted
C20_SendAcceptedAgain ==
  [](( ~isLoading /\ Trim(input) # <<>> /\ activeView \in {"chat", "code"}) => SendGuard)

\* C20: provided every stream terminates, the loading flag returns to false
\* after every accepted send and a later send is accepted; and the failure of
\* an exchange changes its own placeholder only: every other message of its
\* lane, and the whole other lane, stay as they were.
C20_FailureLeavesUsable ==
  /\ C20_LoadingEnds
  /\ C20_SendAcceptedAgain
  /\ [][\A k \in 1..Len(exchanges) :
          FailsNow(k) =>
             /\ Lane(OtherLane(exchanges[k].view))' = Lane(OtherLane(exchanges[k].view))
             /\ \A i \in 1..Len(Lane(exchanges[k].view)) :
                   i \notin PlaceholderAt(k) =>
                      Lane(exchanges[k].view)'[i] = Lane(exchanges[k].view)[i]]_vars

\* C21: generateVeoVideo returns only on an operation that reports done, the
\* first one that does; it throws only when a submit or poll call rejects;
\* while no operation has reported done it keeps waiting and polling, one poll
\* per operation received after the submission, whatever the number of polls
\* so far; an operation done on submission is followed by no poll.
C21_PollsUntilDone ==
  Running(veo) =>
     /\ veo.pc \in {"waiting", "returned"} => veo.polls = Len(veo.ops) - 1
     /\ veo.pc = "polling" => veo.polls = Len(veo.ops)
     /\ veo.pc = "returned" <=>
           (veo.ops # <<>> /\ veo.ops[Len(veo.ops)].done)
     /\ \A i \in 1..(Len(veo.ops) - 1) : ~veo.ops[i].done
     /\ (veo.ops # <<>> /\ veo.ops[1].done) => veo.polls = 0
     /\ veo.pc = "thrown" => veo.polls = Len(veo.ops)
     /\ (veo.pc = "waiting" /\ veo.polls < MaxPolls) => ENABLED VeoWake

C21_Witness ==
  /\ Running(veo)
  /\ veo.pc = "waiting"
  /\ veo.polls = MaxPolls
  /\ Len(veo.ops) = MaxPolls + 1
  /\ \A i \in 1..Len(veo.ops) : ~veo.ops[i].done

\* exchange k receives a chunk in this step
ChunkNow(k) == Len(exchanges'[k].delivered) = Len(exchanges[k].delivered) + 1

\* C22: every chunk with non-empty text republishes the placeholder as its
\* previous content extended at the end by exactly that text, so fragments
\* appear in arrival order; a chunk with empty text changes no message list.
C22_GrowsByFragment ==
  [][\A k \in 1..Len(exchanges) :
       (Len(exchanges') = Len(exchanges) /\ ChunkNow(k)) =>
          LET text == exchanges'[k].delivered[Len(exchanges'[k].delivered)]
              own == exchanges[k].view
          IN IF text = <<>>
             THEN chatMessages' = chatMessages /\ codeMessages' = codeMessages
             ELSE /\ Len(Lane(own)') = Len(Lane(own))
                  /\ \A i \in PlaceholderAt(k) :
                        Lane(own)'[i].content = Lane(own)[i].content \o text]_vars

C22_Witness ==
  /\ Last > 0
  /\ exchanges[Last].phase = "streaming"
  /\ exchanges[Last].delivered = << <<" ", "there">>, <<>> >>
  /\ \E i \in PlaceholderAt(Last) : Lane(exchanges[Last].view)[i].content = <<" ", "there">>

\* the archive an attachment was built from
ArchiveNamed(name) == CHOOSE file \in ZipFiles : file.name = name

\* the members of an archive that are text-like and no directory, in order
Qualifying(file) ==
  SelectSeq(file.entries, LAMBDA entry : ~entry.dir /\ entry.ext \in ZipTextExts)

\* each member wrapped in its path markers
RECURSIVE Wrapped(_)
Wrapped(members) ==
  IF members = <<>> THEN <<>>
  ELSE IF Len(members) = 1
  THEN <<"\n--- START FILE: ", members[1].path, " ---\n">> \o members[1].content
       \o <<"\n--- END FILE ---\n">>
  ELSE Wrapped(SubSeq(members, 1, Len(members) \div 2))
       \o Wrapped(SubSeq(members, (Len(members) \div 2) + 1, Len(members)))

\* the number of members a text holds
MembersIn(data) == Len(SelectSeq(data, LAMBDA t : t = "\n--- START FILE: "))

\* C23: the text built for a ZIP file is the archive header followed by the
\* text-like, non-directory members, in archive order, each in its path
\* markers, and holds the first 50 of them at most.
C23_ZipBoundedTo50 ==
  \A i \in 1..Len(attachments) :
     attachments[i].type = "zip" =>
        LET members == Qualifying(ArchiveNamed(attachments[i].name))
            first == SubSeq(members, 1, IF Len(members) < 50 THEN Len(members) ELSE 50)
        IN /\ MembersIn(attachments[i].data) <= 50
           /\ attachments[i].data =
                 <<"[ARCHIVE_CONTENT: ", attachments[i].name, "]", "\n">> \o Wrapped(first)

\* a step in which handleSendMessage got past its early returns
SendStep == Len(exchanges') = Len(exchanges) + 1

\* C24: a send that passes the guard appends the user message (the trimmed
\* input, no attached-file text) and an empty placeholder without error flag
\* to the end of the active lane, leaves the earlier messages and the other
\* lane as they are, sets isLoading and empties input and attachments; no
\* send gets past a failing guard, so a send that fails it changes nothing.
C24_SendFrame ==
  [][SendStep =>
       LET before == Lane(activeView)
           after == IF activeView = "code" THEN codeMessages' ELSE chatMessages'
           n == Len(before)
       IN /\ ~(Trim(input) = <<>> /\ attachments = <<>>)
          /\ ~isLoading
          /\ SessionRef(activeView) # NoSession
          /\ Len(after) = n + 2
          /\ SubSeq(after, 1, n) = before
          /\ after[n + 1].role = USER
          /\ after[n + 1].content = Trim(input)
          /\ after[n + 2].role = MODEL
          /\ after[n + 2].content = <<>>
          /\ ~after[n + 2].isError
          /\ IF activeView = "code" THEN chatMessages' = chatMessages
                                     ELSE codeMessages' = codeMessages
          /\ isLoading'
          /\ input' = <<>>
          /\ attachments' = <<>>
          /\ UNCHANGED <<activeView, modelType, chatSessionRef, codeSessionRef, sessions>>]_vars

\* the second send, in the code lane after one in the chat lane, of padded
\* text with a text file attached
C24_Witness ==
  /\ Len(exchanges) = 2
  /\ exchanges[1].view = "chat"
  /\ exchanges[2].view = "code"
  /\ exchanges[2].phase = "establishing"
  /\ \E i \in 1..Len(exchanges[2].displayAttachments) :
        exchanges[2].displayAttachments[i].type = "code"
  /\ Len(chatMessages) = 2
  /\ Len(codeMessages) = 2
  /\ codeMessages[1].content = <<"hello">>
  /\ codeMessages[2].content = <<>>
  /\ isLoading
  /\ input = <<>>
  /\ attachments = <<>>

\* ChatMessage: a model message without content and without error flag is
\* shown as in progress
isThinking(message) ==
  message.role # USER /\ message.content = <<>> /\ ~message.isError

\* C25: when no exchange is outstanding (isLoading is false), no model
\* message of either lane is in the in-progress state: each has content or
\* its error flag set, also after a stream that delivered no non-empty
\* fragment.
C25_NoSentinelAfterEnd ==
  ~isLoading =>
     /\ \A i \in 1..Len(chatMessages) : ~isThinking(chatMessages[i])
     /\ \A i \in 1..Len(codeMessages) : ~isThinking(codeMessages[i])

\* exchange k is in flight and its lane was cleared since it was sent
Cleared(k) == InFlight(k) /\ PlaceholderAt(k) = {}

\* the list of a lane after the step
LaneNext(view) == IF view = "code" THEN codeMessages' ELSE chatMessages'

\* C26: once a lane is cleared while its exchange is in flight, the list is
\* empty and only a send in that lane makes it non-empty again, no stream step
\* of the old exchange changes any message, the lane holds a new session with
\* no history that is not the one the old exchange runs on, and isLoading
\* stays set while the old exchange is in flight.
C26_ClearIsFinal ==
  /\ [](\A k \in 1..Len(exchanges) :
          Cleared(k) =>
             /\ Lane(exchanges[k].view) = <<>>
             /\ isLoading
             /\ SessionRef(exchanges[k].view) # exchanges[k].session
             /\ sessions[SessionRef(exchanges[k].view)].history = <<>>)
  /\ [][/\ \A k \in 1..Len(exchanges) :
            (Cleared(k) /\ StreamStepOf(k)) =>
               chatMessages' = chatMessages /\ codeMessages' = codeMessages
         /\ \A view \in {"chat", "code"} :
            (Lane(view) = <<>> /\ LaneNext(view) # <<>>) => (SendStep /\ activeView = view)]_vars

\* a fragment has arrived for an exchange whose lane was cleared
C26_Witness ==
  /\ Last > 0
  /\ Cleared(Last)
  /\ exchanges[Last].phase = "streaming"
  /\ exchanges[Last].accumulatedText = <<"Hi">>
  /\ Lane(exchanges[Last].view) = <<>>

\* C27: the chat lane's session ref is replaced only by a step in which the
\* selected model changes or by a clear of the chat lane; a switch of the view
\* with the same model selected keeps it.
C27_ChatSessionKept ==
  [][chatSessionRef' # chatSessionRef =>
       \/ modelType' # modelType
       \/ /\ activeView = "chat"
          /\ activeView' = "chat"
          /\ chatMessages' = <<>>]_vars

\* C28: the session of the code lane always has the model PRO and the
\* coding instruction of the session created at startup, after any number of
\* clears.
C28_CodeSessionSame ==
  /\ sessions[codeSessionRef].model = PRO
  /\ sessions[codeSessionRef].config.systemInstruction = codingInstruction

\* the reads and awaited archives that are still outstanding after the step
Outstanding == reads'.started \cup reads'.awaiting

\* the position in its selection of an outstanding read or awaited archive
PositionOf(q) == IF "at" \in DOMAIN q THEN q.at ELSE q.index

\* the step completes r (a read, or an awaited archive) and appends its attachment
Appends(r) == r \notin Outstanding /\ Len(attachments') = Len(attachments) + 1

\* C29: a view switch and an accepted send leave the pending list empty, and
\* from then on only files picked afterwards are appended: a read that
\* appends was picked in the view that is active and after the last accepted
\* send; and files picked together are appended in the order they were picked
\* in.
C29_NoLeakInOrder ==
  [][/\ (activeView' # activeView \/ SendStep) => attachments' = <<>>
     /\ \A r \in reads.started \cup reads.awaiting :
           Appends(r) =>
              /\ r.view = activeView
              /\ r.sends = Len(exchanges)
              /\ \A q \in Outstanding :
                    q.selection = r.selection => PositionOf(q) > PositionOf(r)]_vars

\* generateWebsiteCodeStream has been called
WebCalled == "requests" \in DOMAIN call

\* C30: generateWebsiteCodeStream asks Pro first; a second request is made
\* exactly when establishing the Pro stream threw, and it asks Flash; the call
\* throws exactly when the Flash request threw too, and throws that second
\* error; the returned sequence has yielded the non-empty chunk texts of the
\* established stream in arrival order; a failure while the sequence is
\* consumed adds no request and is what the consumer catches.
C30_ProThenFlash ==
  WebCalled =>
     /\ call.requests[1] = PRO
     /\ Len(call.requests) = IF call.errors = <<>> THEN 1 ELSE 2
     /\ Len(call.requests) = 2 => call.requests[2] = FLASH
     /\ call.pc = "thrown" <=> Len(call.errors) = 2
     /\ call.pc = "thrown" => call.thrown = call.errors[2]
     /\ call.pc \in {"returned", "exhausted", "consumer caught"} =>
           /\ Len(call.errors) < 2
           /\ call.yielded = SelectSeq(call.arrived, LAMBDA t : t # <<>> /\ t # Undefined)
     /\ call.pc \in {"attempt", "thrown"} => call.arrived = <<>> /\ call.yielded = <<>>
     /\ call.pc = "consumer caught" => call.thrown \in ApiErrors
     /\ call.pc \in {"attempt", "returned", "exhausted"} => call.thrown = NoError

\* the Flash stream, established after Pro failed, has delivered an empty and a
\* non-empty chunk and then failed
C30_Witness ==
  /\ WebCalled
  /\ call.pc = "consumer caught"
  /\ call.requests = <<PRO, FLASH>>
  /\ Len(call.errors) = 1
  /\ call.arrived = <<<<>>, <<"Hi">>>>
  /\ call.yielded = <<<<"Hi">>>>
  /\ call.thrown # call.errors[1]

====
